---- MODULE Spec2Model ----
(***************************************************************************)
(* A model of the two command-line programs of whisper-mps:                *)
(*   - the whisper-mps CLI (src/src/whisper_mps/cli.py) with the YouTube   *)
(*     downloader it calls (src/src/whisper_mps/utils/ytdownloader.py);    *)
(*   - the channel lister (src/youtube_parser.py).                         *)
(* Text is modelled as sequences of one-character strings, so that         *)
(* lower(), endswith(), startswith(), strip() and split() are computed.    *)
(* An Optional value is <<>> (None) or <<v>>.                              *)
(***************************************************************************)
EXTENDS Integers, Sequences, FiniteSets, TLC

VARIABLES
    \* ---- whisper-mps CLI (cli.py) ----
    args,               \* argparse namespace of cli.py
    cli_pc,             \* position of main()/worker()
    output_file_name,   \* main's local, after lines 117-119
    dl_calls,           \* URLs download_and_convert_to_mp3 was invoked with
    worker_calls,       \* arguments of each worker() call
    json_written,       \* names worker opened for writing and dumped to
    \* ---- download_and_convert_to_mp3 (ytdownloader.py) ----
    dl_pc,              \* position inside the function
    dl_stream,          \* "unset", "none" (first() gave None) or "stream"
    dl_downloaded,      \* Optional downloaded_file_path
    dl_done,            \* steps that completed, in order
    dl_raised,          \* step whose call raised, or "none"
    dl_result,          \* Optional return value
    dl_escaped,         \* TRUE when an exception left the function
    fs,                 \* files and directories the function created
    \* ---- youtube_parser.py ----
    yargs,              \* argparse namespace of youtube_parser.py
    env,                \* what the machine holds: yt-dlp, cookie files
    yp_pc,              \* position of main()
    yp_error,           \* which error path ended the run, or "none"
    exit_code,          \* Optional process exit status
    which_called,       \* shutil.which('yt-dlp') was called
    cmd,                \* the command line handed to subprocess.run, or <<>>
    run_outcome,        \* what subprocess.run did: "unset", "ok", "timeout", ...
    stdout,             \* Optional captured output of yt-dlp
    videos,             \* list returned by fetch_videos_with_ytdlp
    printed,            \* Optional list of entries print_videos printed
    more_line,          \* Optional K of the "... and K more videos" line
    warned,             \* the 'No videos found' warning was printed
    writes              \* save_to_* calls in order: kind, path, whether written

cliVars == <<args, cli_pc, output_file_name, dl_calls, worker_calls, json_written>>
dlVars  == <<dl_pc, dl_stream, dl_downloaded, dl_done, dl_raised, dl_result,
             dl_escaped, fs>>
ypVars  == <<yargs, env, yp_pc, yp_error, exit_code, which_called, cmd,
             run_outcome, stdout, videos, printed, more_line, warned, writes>>
vars    == <<cliVars, dlVars, ypVars>>

----------------------------------------------------------------------------
(* Optional values and text helpers                                        *)

None == <<>>
Some(x) == <<x>>
Val(o) == o[1]

\* bounds of the model
MaxNameLen == 5
MaxOut == 5
MaxLimit == 2

\* str.lower() on one character (ASCII letters of the model's alphabet)
LowerChar(c) ==
    CASE c = "J" -> "j"
      [] c = "S" -> "s"
      [] c = "O" -> "o"
      [] c = "N" -> "n"
      [] OTHER -> c

\* str.lower()
Lower(s) == [i \in 1..Len(s) |-> LowerChar(s[i])]

\* str.endswith(suffix)
EndsWith(s, suffix) ==
    /\ Len(s) >= Len(suffix)
    /\ SubSeq(s, Len(s) - Len(suffix) + 1, Len(s)) = suffix

\* str.startswith(prefix)
StartsWith(s, prefix) ==
    /\ Len(s) >= Len(prefix)
    /\ SubSeq(s, 1, Len(prefix)) = prefix

\* all sequences over S of length at most n
SeqUpTo(S, n) == UNION {[1..k -> S] : k \in 0..n}

DotJson == <<".", "j", "s", "o", "n">>

----------------------------------------------------------------------------
(* whisper-mps CLI: cli.py                                                 *)

\* a faulty variant of NormaliseOutputName: the test without lower()
NormaliseCaseSensitive(name) ==
    IF ~EndsWith(name, DotJson) THEN name \o DotJson ELSE name

\* cli.py 117-119
NormaliseOutputName(name) ==
    IF ~EndsWith(Lower(name), DotJson) THEN name \o DotJson ELSE name

\* the default of --output-file-name, cli.py 71
DefaultOutput == <<"o">> \o DotJson

NameChars == {".", "j", "J", "s", "S", "o", "n", "N"}

\* a path as os.path / pathlib see it: directory, stem, suffix
File(dir, stem, suffix) == [dir |-> dir, stem |-> stem, suffix |-> suffix]

LocalFiles == {File("", "audio", ".mp3"), File("", "talk", ".wav")}
YoutubeUrls == {"", "https://www.youtube.com/watch?v=VIDEO_ID"}

\* defaults of download_and_convert_to_mp3's parameters, ytdownloader.py 12-13
DefaultOutputPath == "output"
DefaultFilename == "test"

\* ytdownloader.py 24: os.path.join(output_path, filename + ".mp4")
Mp3FilePath == File(DefaultOutputPath, DefaultFilename, ".mp4")

\* what audio_stream.download(output_path) can return: a file in output_path
\* named after the video's title, with the stream's extension
DownloadedFiles ==
    {File(DefaultOutputPath, t, x) : t \in {"video", "test"}, x \in {".mp4", ".mp3", ".webm"}}

CliArgs(names) ==
    [file_name : {None} \cup {Some(f) : f \in LocalFiles},
     model_name : {"tiny"},
     youtube_url : {None} \cup {Some(u) : u \in YoutubeUrls},
     output_file_name : names]

DlIdle ==
    /\ dl_pc = "idle"
    /\ dl_stream = "unset"
    /\ dl_downloaded = None
    /\ dl_done = <<>>
    /\ dl_raised = "none"
    /\ dl_result = None
    /\ dl_escaped = FALSE
    /\ fs = {}

CliStart(names) ==
    /\ args \in CliArgs(names)
    /\ cli_pc = "main"
    /\ output_file_name = <<>>
    /\ dl_calls = <<>>
    /\ worker_calls = <<>>
    /\ json_written = <<>>
    /\ DlIdle

\* cli.py 104-128, up to the first call main makes
MainStart ==
    /\ cli_pc = "main"
    /\ output_file_name' = NormaliseOutputName(args.output_file_name)
    /\ IF args.youtube_url # None
       THEN \* 121-122: download_and_convert_to_mp3(youtube_url)
            /\ cli_pc' = "download"
            /\ dl_calls' = Append(dl_calls, Val(args.youtube_url))
            /\ dl_pc' = "lookup"
            /\ UNCHANGED worker_calls
       ELSE IF args.file_name = None
       THEN \* 125-127: log the error, return None
            /\ cli_pc' = "done"
            /\ UNCHANGED <<dl_calls, dl_pc, worker_calls>>
       ELSE \* 128: worker(file_name, model_name, output_file_name)
            /\ cli_pc' = "worker"
            /\ worker_calls' = Append(worker_calls,
                  [file_name |-> args.file_name, model_name |-> args.model_name,
                   output_file_name |-> output_file_name'])
            /\ UNCHANGED <<dl_calls, dl_pc>>
    /\ UNCHANGED <<args, json_written, dl_stream, dl_downloaded, dl_done,
                   dl_raised, dl_result, dl_escaped, fs, ypVars>>

\* a faulty variant of ExceptHandler: the handler logs and re-raises
ExceptHandlerReraise == [result |-> None, escaped |-> TRUE]

\* ytdownloader.py 39-41: except Exception: log, return None
ExceptHandler == [result |-> None, escaped |-> FALSE]

\* a call inside the try block raised an Exception at `step`
DlRaise(step) ==
    /\ dl_raised' = step
    /\ dl_result' = ExceptHandler.result
    /\ dl_escaped' = ExceptHandler.escaped
    /\ dl_pc' = "returned"

\* ytdownloader.py 15-20: YouTube(url), streams.filter(...).first()
DlLookup ==
    /\ dl_pc = "lookup"
    /\ \E outcome \in {"raise", "none", "stream"} :
          CASE outcome = "raise" ->
                 /\ DlRaise("lookup")
                 /\ UNCHANGED <<dl_stream, dl_done>>
            [] outcome = "none" ->
                 /\ dl_stream' = "none"
                 /\ dl_done' = Append(dl_done, "lookup")
                 /\ dl_result' = None
                 /\ dl_pc' = "returned"
                 /\ UNCHANGED <<dl_raised, dl_escaped>>
            [] outcome = "stream" ->
                 /\ dl_stream' = "stream"
                 /\ dl_done' = Append(dl_done, "lookup")
                 /\ dl_pc' = "mkdir"
                 /\ UNCHANGED <<dl_raised, dl_escaped, dl_result>>
    /\ UNCHANGED <<cliVars, dl_downloaded, fs, ypVars>>

\* ytdownloader.py 22: Path(output_path).mkdir(parents=True, exist_ok=True)
DlMkdir ==
    /\ dl_pc = "mkdir"
    /\ \E ok \in BOOLEAN :
          IF ok
          THEN /\ fs' = fs \cup {File(DefaultOutputPath, "", "")}
               /\ dl_done' = Append(dl_done, "mkdir")
               /\ dl_pc' = "download"
               /\ UNCHANGED <<dl_raised, dl_escaped, dl_result>>
          ELSE /\ DlRaise("mkdir")
               /\ UNCHANGED <<fs, dl_done>>
    /\ UNCHANGED <<cliVars, dl_stream, dl_downloaded, ypVars>>

\* ytdownloader.py 27: audio_stream.download(output_path)
DlDownload ==
    /\ dl_pc = "download"
    /\ \/ \E f \in DownloadedFiles :
             /\ fs' = fs \cup {f}
             /\ dl_downloaded' = Some(f)
             /\ dl_done' = Append(dl_done, "download")
             /\ dl_pc' = "transcode"
             /\ UNCHANGED <<dl_raised, dl_escaped, dl_result>>
       \/ /\ DlRaise("download")
          /\ UNCHANGED <<fs, dl_downloaded, dl_done>>
    /\ UNCHANGED <<cliVars, dl_stream, ypVars>>

\* ytdownloader.py 29-31: AudioFileClip, write_audiofile, close
DlTranscode ==
    /\ dl_pc = "transcode"
    /\ \/ /\ fs' = fs \cup {Mp3FilePath}
          /\ dl_done' = Append(dl_done, "transcode")
          /\ dl_pc' = "remove"
          /\ UNCHANGED <<dl_raised, dl_escaped, dl_result>>
       \/ \E partial \in BOOLEAN :
             /\ DlRaise("transcode")
             /\ fs' = IF partial THEN fs \cup {Mp3FilePath} ELSE fs
             /\ UNCHANGED dl_done
    /\ UNCHANGED <<cliVars, dl_stream, dl_downloaded, ypVars>>

\* ytdownloader.py 33-37: remove the download unless it is an .mp3, return
DlRemove ==
    /\ dl_pc = "remove"
    /\ IF Val(dl_downloaded).suffix # ".mp3"
       THEN \E ok \in BOOLEAN :
               IF ok
               THEN /\ fs' = fs \ {Val(dl_downloaded)}
                    /\ dl_done' = Append(dl_done, "remove")
                    /\ dl_result' = Some(Mp3FilePath)
                    /\ dl_pc' = "returned"
                    /\ UNCHANGED <<dl_raised, dl_escaped>>
               ELSE /\ DlRaise("remove")
                    /\ UNCHANGED <<fs, dl_done>>
       ELSE /\ dl_result' = Some(Mp3FilePath)
            /\ dl_pc' = "returned"
            /\ UNCHANGED <<fs, dl_done, dl_raised, dl_escaped>>
    /\ UNCHANGED <<cliVars, dl_stream, dl_downloaded, ypVars>>

\* cli.py 122-123: audio_path = download...(); worker(audio_path, ...)
MainAfterDownload ==
    /\ cli_pc = "download"
    /\ dl_pc = "returned"
    /\ worker_calls = <<>>
    /\ IF dl_escaped
       THEN /\ cli_pc' = "crashed"
            /\ UNCHANGED worker_calls
       ELSE /\ cli_pc' = "worker"
            /\ worker_calls' = Append(worker_calls,
                  [file_name |-> dl_result, model_name |-> args.model_name,
                   output_file_name |-> output_file_name])
    /\ UNCHANGED <<args, output_file_name, dl_calls, json_written, dlVars, ypVars>>

\* cli.py 96: whisper.transcribe(file_name, model=model_name), an opaque
\* call that returns a result or raises
WorkerTranscribe ==
    /\ cli_pc = "worker"
    /\ \E ok \in BOOLEAN : cli_pc' = IF ok THEN "write" ELSE "crashed"
    /\ UNCHANGED <<args, output_file_name, dl_calls, worker_calls, json_written,
                   dlVars, ypVars>>

\* cli.py 98-102: open(output_file_name, "w"), json.dump
WorkerWrite ==
    /\ cli_pc = "write"
    /\ \E ok \in BOOLEAN :
          IF ok
          THEN /\ json_written' = Append(json_written,
                      worker_calls[Len(worker_calls)].output_file_name)
               /\ cli_pc' = "done"
          ELSE /\ cli_pc' = "crashed"
               /\ UNCHANGED json_written
    /\ UNCHANGED <<args, output_file_name, dl_calls, worker_calls, dlVars, ypVars>>

----------------------------------------------------------------------------
(* youtube_parser.py                                                       *)

\* str.isspace() on one character
IsSpace(c) == c \in {" ", "\n"}

RECURSIVE LStrip(_)
\* str.lstrip()
LStrip(s) == IF s # <<>> /\ IsSpace(Head(s)) THEN LStrip(Tail(s)) ELSE s

RECURSIVE RStrip(_)
\* str.rstrip()
RStrip(s) ==
    IF s # <<>> /\ IsSpace(s[Len(s)]) THEN RStrip(SubSeq(s, 1, Len(s) - 1)) ELSE s

\* str.strip()
Strip(s) == RStrip(LStrip(s))

\* str.find(c) for a character in s, 1-based
Find(s, c) == CHOOSE i \in 1..Len(s) : s[i] = c /\ \A j \in 1..(i - 1) : s[j] # c

\* c in s
Contains(s, c) == \E i \in 1..Len(s) : s[i] = c

RECURSIVE Split(_, _)
\* str.split(c): always at least one piece
Split(s, c) ==
    IF Contains(s, c)
    THEN <<SubSeq(s, 1, Find(s, c) - 1)>> \o Split(SubSeq(s, Find(s, c) + 1, Len(s)), c)
    ELSE <<s>>

\* str.split(c, 1) on a line that contains c
SplitOnce(line, c) ==
    <<SubSeq(line, 1, Find(line, c) - 1), SubSeq(line, Find(line, c) + 1, Len(line))>>

\* the constant head of every video URL, youtube_parser.py 85, as one token
WatchPrefix == <<"https://www.youtube.com/watch?v=">>

\* youtube_parser.py 83-87
Entry(line) ==
    LET parts == SplitOnce(line, "|")
    IN [url |-> WatchPrefix \o parts[1], title |-> Strip(parts[2])]

\* youtube_parser.py 80-89
ParseOutput(out) ==
    LET lines == Split(Strip(out), "\n")
        kept == SelectSeq(lines, LAMBDA l : Contains(l, "|"))
    IN [i \in 1..Len(kept) |-> Entry(kept[i])]

Http == <<"h", "t", "t", "p", ":", "/", "/">>
Https == <<"h", "t", "t", "p", "s", ":", "/", "/">>

\* a faulty variant of ValidUrl: the scheme test cut short
ValidUrlLoose(url) == StartsWith(url, <<"h", "t", "t", "p">>)

\* youtube_parser.py 253
ValidUrl(url) == StartsWith(url, Http) \/ StartsWith(url, Https)

\* Python truth of an Optional str: neither None nor ''
TruthyStr(o) == o # None /\ Val(o) # ""

\* Python truth of an Optional int: neither None nor 0
TruthyInt(o) == o # None /\ Val(o) # 0

Min(a, b) == IF a <= b THEN a ELSE b
Max(a, b) == IF a >= b THEN a ELSE b

\* videos[:n], n possibly negative
SliceTo(v, n) ==
    IF n >= 0 THEN SubSeq(v, 1, Min(n, Len(v))) ELSE SubSeq(v, 1, Max(Len(v) + n, 0))

\* youtube_parser.py 167
DisplayCount(total, limit) == IF TruthyInt(limit) THEN Min(Val(limit), total) ELSE total

\* youtube_parser.py 177-178: K of the "... and K more videos" line, if printed
MoreLine(total, limit) ==
    IF TruthyInt(limit) /\ total > Val(limit) THEN Some(total - Val(limit)) ELSE None

\* youtube_parser.py 46-64
BuildCmd(url, cookies_file, max_videos) ==
    <<"yt-dlp", "--flat-playlist", "--print", "%(id)s|%(title)s", "--no-warnings">>
    \o (IF TruthyStr(cookies_file) THEN <<"--cookies", Val(cookies_file)>> ELSE <<>>)
    \o (IF TruthyInt(max_videos) THEN <<"--playlist-end", Val(max_videos)>> ELSE <<>>)
    \o <<url>>

\* a faulty variant of HasVideos: the guard of the save block dropped
HasVideosAlways(v) == TRUE

\* youtube_parser.py 270: if videos
HasVideos(v) == v # <<>>

Urls ==
    {Https \o <<"c">>, Http \o <<"c">>, <<"h", "t", "t", "p", "x">>,
     <<"f", "t", "p", ":", "/", "/", "c">>, <<"c">>}

Limits == {None} \cup {Some(n) : n \in (-1)..MaxLimit}

YpArgs ==
    [url : Urls,
     output : {"youtube_videos.json", ""},
     csv : {None, Some(""), Some("videos.csv")},
     txt : {None, Some(""), Some("videos.txt")},
     cookies : {None, Some(""), Some("cookies.txt")},
     max : {None, Some(0), Some(2)},
     limit : Limits,
     no_print : BOOLEAN]

YpEnv == [ytdlp_installed : BOOLEAN, files : {{}, {"cookies.txt"}}]

YpFresh ==
    /\ yp_error = "none"
    /\ exit_code = None
    /\ which_called = FALSE
    /\ cmd = <<>>
    /\ run_outcome = "unset"
    /\ stdout = None
    /\ videos = <<>>
    /\ printed = None
    /\ more_line = None
    /\ warned = FALSE
    /\ writes = <<>>

\* the channel lister not running
YpIdle ==
    /\ yargs = <<>>
    /\ env = <<>>
    /\ yp_pc = "idle"
    /\ YpFresh

\* sys.exit(1) on the error path `why`
Exit1(why) ==
    /\ yp_error' = why
    /\ exit_code' = Some(1)
    /\ yp_pc' = "exited"

\* youtube_parser.py 250-256
YpValidate ==
    /\ yp_pc = "main"
    /\ IF ~ValidUrl(yargs.url)
       THEN Exit1("bad_url")
       ELSE /\ yp_pc' = "fetch"
            /\ UNCHANGED <<yp_error, exit_code>>
    /\ UNCHANGED <<yargs, env, which_called, cmd, run_outcome, stdout, videos,
                   printed, more_line, warned, writes, cliVars, dlVars>>

\* youtube_parser.py 37-68: the checks before yt-dlp runs, and its command line
FetchCheck ==
    /\ yp_pc = "fetch"
    /\ which_called' = TRUE
    /\ IF ~env.ytdlp_installed
       THEN /\ Exit1("no_ytdlp")
            /\ UNCHANGED cmd
       ELSE IF TruthyStr(yargs.cookies) /\ Val(yargs.cookies) \notin env.files
       THEN /\ Exit1("no_cookies")
            /\ UNCHANGED cmd
       ELSE /\ cmd' = BuildCmd(yargs.url, yargs.cookies, yargs.max)
            /\ yp_pc' = "run"
            /\ UNCHANGED <<yp_error, exit_code>>
    /\ UNCHANGED <<yargs, env, run_outcome, stdout, videos, printed, more_line,
                   warned, writes, cliVars, dlVars>>

\* youtube_parser.py 70-100: subprocess.run and the parse of its output;
\* `outs` is what yt-dlp may print
FetchRun(outs) ==
    /\ yp_pc = "run"
    /\ \/ \E why \in {"timeout", "nonzero", "exception"} :
             /\ run_outcome' = why
             /\ Exit1(why)
             /\ UNCHANGED <<stdout, videos>>
       \/ \E out \in outs :
             /\ run_outcome' = "ok"
             /\ stdout' = Some(out)
             /\ videos' = ParseOutput(out)
             /\ yp_pc' = "print"
             /\ UNCHANGED <<yp_error, exit_code>>
    /\ UNCHANGED <<yargs, env, which_called, cmd, printed, more_line, warned,
                   writes, cliVars, dlVars>>

\* youtube_parser.py 265-267 with print_videos, 158-178
YpPrint ==
    /\ yp_pc = "print"
    /\ IF ~yargs.no_print
       THEN /\ printed' = Some(SliceTo(videos, DisplayCount(Len(videos), yargs.limit)))
            /\ more_line' = MoreLine(Len(videos), yargs.limit)
       ELSE UNCHANGED <<printed, more_line>>
    /\ yp_pc' = "save"
    /\ UNCHANGED <<yargs, env, yp_error, exit_code, which_called, cmd, run_outcome,
                   stdout, videos, warned, writes, cliVars, dlVars>>

\* Path(path).write_text / open('w'): '' is the current directory and cannot
\* be opened for writing; any other path is written or raises OSError
WriteOutcomes(path) == IF path = "" THEN {FALSE} ELSE BOOLEAN

\* one save_to_* call; an OSError it raises is caught nowhere
Save(kind, path, next) ==
    \E ok \in WriteOutcomes(path) :
        /\ writes' = Append(writes, [kind |-> kind, path |-> path, ok |-> ok])
        /\ IF ok
           THEN /\ yp_pc' = next
                /\ exit_code' = IF next = "done" THEN Some(0) ELSE exit_code
           ELSE /\ yp_pc' = "crashed"
                /\ exit_code' = Some(1)

Skip(next) ==
    /\ yp_pc' = next
    /\ exit_code' = IF next = "done" THEN Some(0) ELSE exit_code
    /\ UNCHANGED writes

\* youtube_parser.py 270-271 and 278-283
YpSaveJson ==
    /\ yp_pc = "save"
    /\ IF HasVideos(videos)
       THEN /\ Save("json", yargs.output, "csv")
            /\ UNCHANGED warned
       ELSE /\ warned' = TRUE
            /\ Skip("done")
    /\ UNCHANGED <<yargs, env, yp_error, which_called, cmd, run_outcome, stdout,
                   videos, printed, more_line, cliVars, dlVars>>

\* youtube_parser.py 273-274
YpSaveCsv ==
    /\ yp_pc = "csv"
    /\ IF TruthyStr(yargs.csv) THEN Save("csv", Val(yargs.csv), "txt") ELSE Skip("txt")
    /\ UNCHANGED <<yargs, env, yp_error, which_called, cmd, run_outcome, stdout,
                   videos, printed, more_line, warned, cliVars, dlVars>>

\* youtube_parser.py 276-277
YpSaveTxt ==
    /\ yp_pc = "txt"
    /\ IF TruthyStr(yargs.txt) THEN Save("txt", Val(yargs.txt), "done") ELSE Skip("done")
    /\ UNCHANGED <<yargs, env, yp_error, which_called, cmd, run_outcome, stdout,
                   videos, printed, more_line, warned, cliVars, dlVars>>

----------------------------------------------------------------------------
(* specifications                                                          *)

\* a few output names: the default, one without extension, one upper-case
FewNames == {DefaultOutput, <<"o">>, <<"o", ".", "J", "S", "O", "N">>}

InitCli == CliStart(FewNames) /\ YpIdle

NextCli ==
    \/ MainStart
    \/ DlLookup
    \/ DlMkdir
    \/ DlDownload
    \/ DlTranscode
    \/ DlRemove
    \/ MainAfterDownload
    \/ WorkerTranscribe
    \/ WorkerWrite

SpecCli == InitCli /\ [][NextCli]_vars

\* runs on a local file, over every output name up to MaxNameLen
InitNames ==
    /\ CliStart(SeqUpTo(NameChars, MaxNameLen))
    /\ args.youtube_url = None
    /\ args.file_name = Some(File("", "audio", ".mp3"))
    /\ YpIdle

NextNames ==
    \/ MainStart
    \/ WorkerTranscribe
    \/ WorkerWrite

SpecNames == InitNames /\ [][NextNames]_vars

\* the whisper-mps CLI not running
CliIdle ==
    /\ args = <<>>
    /\ cli_pc = "idle"
    /\ output_file_name = <<>>
    /\ dl_calls = <<>>
    /\ worker_calls = <<>>
    /\ json_written = <<>>
    /\ DlIdle

\* outputs of up to three lines, for the runs of the whole lister
SampleOutputs ==
    {<<>>,
     <<"a", "\n">>,
     <<"a", "|", "b", "\n">>,
     <<"a", "|", "b", "\n", "b", "|", "a", "\n">>,
     <<"a", "|", "b", "\n", "x", "\n", "b", "|", "a", "\n", "a", "|", "a", "\n">>}

InitParser ==
    /\ CliIdle
    /\ yargs \in YpArgs
    /\ env \in YpEnv
    /\ yp_pc = "main"
    /\ YpFresh

NextParser ==
    \/ YpValidate
    \/ FetchCheck
    \/ FetchRun(SampleOutputs)
    \/ YpPrint
    \/ YpSaveJson
    \/ YpSaveCsv
    \/ YpSaveTxt

SpecParser == InitParser /\ [][NextParser]_vars

OutChars == {"a", "|", " ", "\n"}

\* one run with default options, over every output up to MaxOut characters
InitFetch ==
    /\ CliIdle
    /\ yargs = [url |-> Https \o <<"c">>, output |-> "youtube_videos.json",
                csv |-> None, txt |-> None, cookies |-> None, max |-> None,
                limit |-> None, no_print |-> FALSE]
    /\ env = [ytdlp_installed |-> TRUE, files |-> {}]
    /\ yp_pc = "main"
    /\ YpFresh

NextFetch ==
    \/ YpValidate
    \/ FetchCheck
    \/ FetchRun(SeqUpTo(OutChars, MaxOut))

SpecFetch == InitFetch /\ [][NextFetch]_vars

----------------------------------------------------------------------------
(* properties                                                              *)

\* C1: in every run of the whisper-mps CLI with --youtube-url given,
\* download_and_convert_to_mp3 is invoked exactly once, on that URL, before
\* any transcription call, and the worker call that follows receives the
\* path of the audio file the download produced: never None and never the
\* --file-name argument.
C1_YoutubeRunTranscribesDownload ==
    args.youtube_url # None =>
        /\ Len(dl_calls) <= 1
        /\ cli_pc # "main" => dl_calls = <<Val(args.youtube_url)>>
        /\ \A i \in 1..Len(worker_calls) :
              /\ dl_calls = <<Val(args.youtube_url)>>
              /\ worker_calls[i].file_name # None
              /\ worker_calls[i].file_name = Some(Mp3FilePath)
              /\ Mp3FilePath \notin LocalFiles

\* the name ends in '.json', letter case ignored
EndsJsonAnyCase(s) ==
    LET n == Len(s)
    IN /\ n >= 5
       /\ s[n - 4] = "."
       /\ s[n - 3] \in {"j", "J"}
       /\ s[n - 2] \in {"s", "S"}
       /\ s[n - 1] \in {"o", "O"}
       /\ s[n] \in {"n", "N"}

\* C2: the file name the CLI passes to worker and writes the transcript to
\* ends in '.json' (case-insensitively): a --output-file-name that already
\* ends so is used unchanged, any other gets exactly one '.json' appended,
\* and normalising the result again changes nothing.
C2_OutputNameEndsInJson ==
    LET given == args.output_file_name
        Right(used) ==
            /\ EndsJsonAnyCase(used)
            /\ EndsJsonAnyCase(given) => used = given
            /\ ~EndsJsonAnyCase(given) => used = given \o <<".", "j", "s", "o", "n">>
            /\ NormaliseOutputName(used) = used
    IN /\ cli_pc # "main" => Right(output_file_name)
       /\ \A i \in 1..Len(worker_calls) : Right(worker_calls[i].output_file_name)
       /\ \A i \in 1..Len(json_written) :
             /\ Right(json_written[i])
             /\ json_written[i] = worker_calls[1].output_file_name

\* C2's case: a transcript written under a name given with an upper-case
\* extension
C2_Witness ==
    /\ json_written # <<>>
    /\ args.output_file_name = <<".", "J", "S", "o", "N">>
    /\ json_written[1] = args.output_file_name

\* an option given with a non-empty value
GivenNonEmpty(o) == o # None /\ o # <<"">>

Kinds == [i \in 1..Len(writes) |-> writes[i].kind]
Written(kind) == \E i \in 1..Len(writes) : writes[i].kind = kind /\ writes[i].ok
IsPrefix(a, b) == Len(a) <= Len(b) /\ a = SubSeq(b, 1, Len(a))

\* C3 as stated: after a fetch that returns a non-empty list the JSON file
\* is written, the CSV file iff --csv was given and the text file iff --txt
\* was given; after an empty list nothing is written and the warning is
\* printed.  Read for the runs that end normally.
C3_SavesFollowGivenOptions ==
    /\ yp_pc = "done" /\ videos # <<>> =>
          /\ Written("json")
          /\ Written("csv") <=> yargs.csv # None
          /\ Written("txt") <=> yargs.txt # None
    /\ yp_pc = "done" /\ videos = <<>> => writes = <<>> /\ warned

\* C3, amended: after a fetch that returns a non-empty list, save_to_json
\* is called on --output, then save_to_csv iff --csv was given with a
\* non-empty value, then save_to_txt iff --txt was given with a non-empty
\* value, in that order, each on its option's path; a call that cannot
\* write its file ends the run there (an empty path never can).  After an
\* empty list no save is called and the warning is printed.
C3_SavesFollowNonEmptyOptions ==
    LET expected ==
            <<[kind |-> "json", path |-> yargs.output]>>
            \o (IF GivenNonEmpty(yargs.csv)
                THEN <<[kind |-> "csv", path |-> yargs.csv[1]]>> ELSE <<>>)
            \o (IF GivenNonEmpty(yargs.txt)
                THEN <<[kind |-> "txt", path |-> yargs.txt[1]]>> ELSE <<>>)
        called == [i \in 1..Len(writes) |->
                      [kind |-> writes[i].kind, path |-> writes[i].path]]
    IN /\ videos = <<>> => writes = <<>>
       /\ warned <=> (yp_pc = "done" /\ videos = <<>>)
       /\ yp_pc \in {"main", "fetch", "run", "print", "save", "exited"} => writes = <<>>
       /\ IsPrefix(called, expected)
       /\ \A i \in 1..Len(writes) :
             /\ i < Len(writes) => writes[i].ok
             /\ writes[i].path = "" => ~writes[i].ok
       /\ yp_pc = "done" /\ videos # <<>> =>
             called = expected /\ \A i \in 1..Len(writes) : writes[i].ok
       /\ yp_pc = "crashed" <=> (writes # <<>> /\ ~writes[Len(writes)].ok)
       /\ yp_pc = "csv" => Kinds = <<"json">>

\* C3's case: --csv '' and --txt videos.txt: JSON and text written, no CSV
C3_Witness ==
    /\ yp_pc = "done"
    /\ yargs.csv = Some("")
    /\ Kinds = <<"json", "txt">>
    /\ Written("txt")

\* C4: print_videos prints at most `limit` entries whenever a limit is
\* given (0 and negative values included), prints all entries when limit
\* is None, and the K of a '... and K more videos' line is the number of
\* videos minus the number of entries printed.
C4_PrintRespectsLimit ==
    printed # None =>
        /\ yargs.limit # None => Len(printed[1]) <= yargs.limit[1]
        /\ yargs.limit = None => printed[1] = videos
        /\ more_line # None => more_line[1] = Len(videos) - Len(printed[1])

\* the URL begins with http:// or https://
HasHttpScheme(url) ==
    \/ Len(url) >= 7 /\ SubSeq(url, 1, 7) = <<"h", "t", "t", "p", ":", "/", "/">>
    \/ Len(url) >= 8 /\ SubSeq(url, 1, 8) = <<"h", "t", "t", "p", "s", ":", "/", "/">>

\* C5: each error outcome of a youtube_parser run (a URL without http:// or
\* https://, yt-dlp missing, a given cookies file missing, a yt-dlp
\* timeout, a non-zero yt-dlp status, any other exception in the run or
\* the parse) ends the process with status 1 before print_videos runs and
\* before any file is written; a bad URL before yt-dlp is looked up, a
\* missing cookies file before yt-dlp is invoked.
C5_ErrorsExitBeforeOutput ==
    LET Rejected(why) ==
            /\ yp_pc = "exited"
            /\ yp_error = why
            /\ exit_code = Some(1)
            /\ printed = None /\ more_line = None
            /\ writes = <<>> /\ ~warned
        cookiesMissing ==
            /\ yargs.cookies # None
            /\ yargs.cookies # <<"">>
            /\ yargs.cookies[1] \notin env.files
    IN /\ yp_pc # "main" /\ ~HasHttpScheme(yargs.url) =>
             Rejected("bad_url") /\ ~which_called /\ run_outcome = "unset"
       /\ yp_pc \notin {"main", "fetch"} /\ HasHttpScheme(yargs.url)
             /\ ~env.ytdlp_installed =>
             Rejected("no_ytdlp") /\ run_outcome = "unset"
       /\ yp_pc \notin {"main", "fetch"} /\ HasHttpScheme(yargs.url)
             /\ env.ytdlp_installed /\ cookiesMissing =>
             Rejected("no_cookies") /\ run_outcome = "unset" /\ cmd = <<>>
       /\ run_outcome \in {"timeout", "nonzero", "exception"} =>
             Rejected(run_outcome)
       /\ yp_error # "none" => yp_pc = "exited" /\ exit_code = Some(1)
       /\ yp_pc = "exited" => yp_error # "none"

\* C5's case: yt-dlp timed out
C5_Witness ==
    /\ run_outcome = "timeout"
    /\ yp_pc = "exited"
    /\ exit_code = Some(1)

\* the lines of the output, cut at each newline, by position
RawLines(s) ==
    LET starts == {1} \cup {i + 1 : i \in {j \in 1..Len(s) : s[j] = "\n"}}
        StartNo(k) == CHOOSE a \in starts : Cardinality({b \in starts : b < a}) = k - 1
        EndOf(a) ==
            IF \E i \in a..Len(s) : s[i] = "\n"
            THEN (CHOOSE i \in a..Len(s) :
                      s[i] = "\n" /\ \A j \in a..(i - 1) : s[j] # "\n") - 1
            ELSE Len(s)
    IN [k \in 1..Cardinality(starts) |-> SubSeq(s, StartNo(k), EndOf(StartNo(k)))]

\* text with the whitespace around it removed, by position
Trimmed(t) ==
    LET inked == {i \in 1..Len(t) : t[i] \notin {" ", "\n"}}
    IN IF inked = {} THEN <<>>
       ELSE SubSeq(t, CHOOSE i \in inked : \A j \in inked : i <= j,
                      CHOOSE i \in inked : \A j \in inked : i >= j)

\* C6: for a successful yt-dlp run fetch_videos_with_ytdlp returns exactly
\* one entry per output line that contains '|', in line order: 'url' is
\* the watch prefix followed by the text before the line's first '|',
\* 'title' the text after it, stripped; lines without '|' give no entry.
C6_EntriesMatchLines ==
    stdout # None =>
        LET lines == RawLines(stdout[1])
            HasBar(l) == \E i \in 1..Len(l) : l[i] = "|"
            kept == SelectSeq(lines, HasBar)
            Bar(l) == CHOOSE i \in 1..Len(l) : l[i] = "|" /\ \A j \in 1..(i - 1) : l[j] # "|"
        IN /\ Len(videos) = Len(kept)
           /\ Len(videos) <= Len(lines)
           /\ \A k \in 1..Len(kept) :
                 /\ DOMAIN videos[k] = {"url", "title"}
                 /\ videos[k].url =
                        <<"https://www.youtube.com/watch?v=">>
                        \o SubSeq(kept[k], 1, Bar(kept[k]) - 1)
                 /\ videos[k].title =
                        Trimmed(SubSeq(kept[k], Bar(kept[k]) + 1, Len(kept[k])))

\* C7: download_and_convert_to_mp3 never lets an exception reach its
\* caller: a step that raises makes it return None; with no stream it
\* returns None without creating the directory, downloading or
\* transcoding; it returns a path only when every step completed.
C7_DownloadNeverRaises ==
    LET steps == <<"lookup", "mkdir", "download", "transcode">>
    IN /\ ~dl_escaped
       /\ cli_pc = "crashed" => worker_calls # <<>>
       /\ dl_raised # "none" => dl_pc = "returned" /\ dl_result = None
       /\ dl_stream = "none" =>
             /\ dl_pc = "returned" /\ dl_result = None
             /\ fs = {} /\ dl_downloaded = None /\ dl_done = <<"lookup">>
       /\ dl_result # None =>
             /\ dl_pc = "returned" /\ dl_raised = "none" /\ dl_stream = "stream"
             /\ dl_result = Some(Mp3FilePath)
             /\ dl_done = IF dl_downloaded[1].suffix = ".mp3"
                          THEN steps ELSE Append(steps, "remove")
       /\ dl_pc = "returned" /\ dl_result = None =>
             dl_raised # "none" \/ dl_stream = "none"

\* C7's case: the removal of the downloaded file raised, None was returned
C7_Witness ==
    /\ dl_pc = "returned"
    /\ dl_raised = "remove"
    /\ dl_result = None
    /\ cli_pc = "worker"

====
